---- MODULE Spec2Model ----
(***************************************************************************)
(* flush-manager: a single-child process supervisor.                       *)
(*                                                                         *)
(*   internal/process  (manager)      Start / Stop / Restart / Wait and    *)
(*                                    the monitorProcess goroutine         *)
(*   internal/watcher  (fileWatcher)  fsnotify listener, poller, debounce  *)
(*   internal/manager  (Manager)      Run: the event loop, and shutdown    *)
(*                                                                         *)
(* Every goroutine of the program is a process of the model; one action is *)
(* one step a goroutine takes between two points where another goroutine   *)
(* can observe or change what it reads.  Time is not modelled: a timer may *)
(* fire whenever it is armed, and time.Sleep is a step.                    *)
(***************************************************************************)
EXTENDS Integers, Sequences, FiniteSets, TLC

\* Bounds of the model.
MaxRuns == 2        \* calls of manager.Start (the first one and the restarts)
MaxChanges == 1     \* modifications of the watched file
MaxEvents == 1      \* fsnotify events queued and not yet read
MaxCalls == 3       \* calls of Start, Stop and Restart by a caller of the process manager
MaxMods == 3        \* modifications of the watched file seen by a fileWatcher used alone

\* Program constants.
StopTimeout == 10   \* seconds: Stop(10 * time.Second)
CallerTimeout == 1  \* seconds: Stop(1 * time.Second) in the tests

Runs == 1..MaxRuns

\* Errors are chains of messages, outermost first; nil is the empty chain.
Nil == <<>>
ErrExit == <<"exit status">>                      \* cmd.Wait: non-zero status or signal
ErrWait == <<"wait: no child processes">>         \* cmd.Wait after another waiter reaped
ErrDone == <<"os: process already finished">>     \* os.ErrProcessDone
ErrPerm == <<"operation not permitted">>          \* kill(2): EPERM
ErrExec == <<"exec: executable not found">>       \* cmd.Start: launch failure
ErrCtx == <<"context canceled">>                  \* cmd.Start on a cancelled context
ErrClose == <<"close failed">>                    \* fsnotify Watcher.Close

Wrap(msg, e) == <<msg>> \o e                      \* fmt.Errorf(msg + ": %w", e)

VARIABLES
    \* ---- internal/manager: Manager.Run
    pc,             \* where the goroutine that called Run is
    stopCaller,     \* who called Stop: "Restart" or "shutdown"
    stopTimeoutArg, \* the timeout passed to the Stop in progress (0: none)
    stopRes,        \* <<e>> once the last Stop returned e, <<>> before
    ret,            \* what Run returned (meaningful when pc = "Done")
    sigChan,        \* sigChan, capacity 1: number of signals buffered
    ctxDone,        \* m.ctx is cancelled
    runExitChan,    \* Run's exitChan, capacity 1
    repWaiting,     \* goroutines of Run blocked in processManager.Wait()
    repHold,        \* results held by goroutines of Run about to send on exitChan
    \* ---- internal/process: manager
    restartFlag,    \* m.restartFlag
    cmd,            \* m.cmd: the run it belongs to, 0 for nil
    proc,           \* the OS process of each run
    mon,            \* the monitorProcess goroutine of each run
    pmExitChan,     \* m.exitChan, capacity 1
    stopDone,       \* Stop's goroutine and its channel done
    \* ---- internal/watcher: fileWatcher
    watcherKind,    \* "noop" (noopWatcher) or "active" (fileWatcher)
    watcherClosed,  \* fsnotify watcher closed
    file,           \* what os.Stat(filePath) shows: [mt, ino]
    last,           \* [mt |-> lastModTime, ino |-> lastInode]
    changeChan,     \* changeChan, capacity 1: notifications buffered
    fsEvents,       \* relevant fsnotify events queued
    watchG,         \* the watch goroutine: [pc, snap]
    pollG,          \* the poll goroutine: [pc, snap]
    debounceTimer,  \* "nil" or "armed"
    callbacks,      \* debounce timers that fired: their functions are running
    \* ---- the environment and the history (not program state)
    faults,         \* the environment may fail: launch, kill(2), stat, Close
    burst,          \* how the file is modified: "free", "rapid" or "over"
    hist

runVars == <<pc, stopCaller, stopTimeoutArg, stopRes, ret, sigChan, ctxDone, runExitChan,
             repWaiting, repHold>>
procVars == <<restartFlag, cmd, proc, mon, pmExitChan, stopDone>>
watchVars == <<watcherKind, watcherClosed, file, last, changeChan, fsEvents,
               watchG, pollG, debounceTimer, callbacks>>
envVars == <<faults, burst>>
vars == <<runVars, procVars, watchVars, envVars, hist>>

\* The results of an operation of the environment that can fail.
Outcomes == IF faults THEN BOOLEAN ELSE {TRUE}

\* A cancel function that undoes the cancellation when it is called again.
cancel_Toggles(done) == ~done

\* The CancelFunc of context.WithCancel, applied to a context that is done or
\* not: the context is done afterwards; a second call does nothing.
cancel(done) == TRUE

(***************************************************************************)
(* internal/process: manager                                               *)
(***************************************************************************)

\* The run the next call of Start creates.
NextRun == Cardinality({r \in Runs : proc[r].status # "none"}) + 1

\* cmd.Start(): exec.CommandContext refuses a cancelled context; otherwise the
\* launch succeeds or fails (execOk: the executable is there and can be run).
CmdStart(execOk) ==
    IF ctxDone THEN ErrCtx ELSE IF execOk THEN Nil ELSE ErrExec

\* A Start that spawns monitorProcess before it looks at the result of
\* cmd.Start().
Start_MonitorsAnyway(e) ==
    LET r == NextRun IN
    /\ cmd' = r
    /\ proc' = [proc EXCEPT ![r].status = IF e = Nil THEN "live" ELSE "failed"]
    /\ mon' = [mon EXCEPT ![r].st = "spawned"]

\* manager.Start, given the result e of cmd.Start(): m.cmd is replaced in
\* either case; on success the process is live and monitorProcess is spawned.
Start(e) ==
    LET r == NextRun IN
    /\ cmd' = r
    /\ IF e = Nil
         THEN /\ proc' = [proc EXCEPT ![r].status = "live"]
              /\ mon' = [mon EXCEPT ![r].st = "spawned"]
         ELSE /\ proc' = [proc EXCEPT ![r].status = "failed"]
              /\ mon' = mon

\* What manager.Start returns.
StartErr(e) == IF e = Nil THEN Nil ELSE Wrap("failed to start process", e)

\* monitorProcess: the reason it gives, from the restart flag it reads.
ExitReasonFor(flag) == IF flag THEN "Restart" ELSE "Abnormal"

\* monitorProcess, err := m.cmd.Wait().  The goroutine reads m.cmd when it is
\* scheduled, unsynchronised with a later Start's write of m.cmd: it waits on
\* the run b that was current at some point since it was spawned.  cmd.Wait
\* returns once b has terminated; it reaps b and yields its status, or fails
\* when another waiter (Stop's goroutine, another monitor) reaped b.
MonWaitErrs(b) ==
    IF proc[b].status = "zombie"
      THEN {proc[b].err} \cup (IF proc[b].term THEN {ErrWait} ELSE {})
      ELSE {ErrWait}

MonWait(r) ==
    /\ mon[r].st = "spawned"
    /\ \E b \in r..cmd :
         /\ proc[b].status \in {"failed", "zombie", "reaped"}
         /\ \E e \in MonWaitErrs(b) :
              mon' = [mon EXCEPT ![r] = [st |-> "exited", run |-> b, err |-> e,
                                         reason |-> "Unknown"]]
         /\ proc' = IF proc[b].status = "zombie"
                      THEN [proc EXCEPT ![b].status = "reaped"]
                      ELSE proc
    /\ UNCHANGED <<restartFlag, cmd, pmExitChan, stopDone, runVars, watchVars, envVars, hist>>

\* A monitorProcess that clears the restart flag once it has read it set.
MonClassify_ClearsFlag(r) ==
    /\ mon[r].st = "exited"
    /\ mon' = [mon EXCEPT ![r].st = "sending",
                          ![r].reason = ExitReasonFor(restartFlag)]
    /\ restartFlag' = FALSE
    /\ UNCHANGED <<cmd, proc, pmExitChan, stopDone, runVars, watchVars, envVars,
                   hist>>

\* monitorProcess, lines 146-156: classify by m.restartFlag as it is now.
MonClassify(r) ==
    /\ mon[r].st = "exited"
    /\ mon' = [mon EXCEPT ![r].st = "sending",
                          ![r].reason = ExitReasonFor(restartFlag)]
    /\ UNCHANGED <<restartFlag, cmd, proc, pmExitChan, stopDone, runVars,
                   watchVars, envVars, hist>>

ExitInfoOf(r) ==
    [reason |-> mon[r].reason, err |-> mon[r].err, mon |-> r]

\* monitorProcess, m.exitChan <- exitInfo{...}: blocks while the channel is full.
MonSend(r) ==
    /\ mon[r].st = "sending"
    /\ Len(pmExitChan) < 1
    /\ pmExitChan' = Append(pmExitChan, ExitInfoOf(r))
    /\ mon' = [mon EXCEPT ![r].st = "done"]
    /\ UNCHANGED <<restartFlag, cmd, proc, stopDone, runVars, watchVars, envVars, hist>>

\* Process.Signal / Process.Kill on run r: ErrProcessDone once a Wait has
\* reaped it, else the result of kill(2).
SignalResults(r) ==
    IF proc[r].status = "reaped" THEN {ErrDone}
    ELSE {IF ok THEN Nil ELSE ErrPerm : ok \in Outcomes}

\* A Stop that takes every failure of Signal(SIGTERM) for a finished process.
AfterSigterm_AnyErrorBenign(e) == IF e = Nil THEN "wait" ELSE "return nil"

\* Stop, lines 112-120: what follows the result of Signal(SIGTERM).
AfterSigterm(e) ==
    IF e = Nil THEN "wait"
    ELSE IF e = ErrDone THEN "return nil"
    ELSE "return err"

\* A Restart that logs the error of Stop and goes on to start the process.
RestartStopErr_Swallowed(e) == Nil

\* Restart, lines 82-85: what Restart returns when its Stop returned e.
RestartStopErr(e) == IF e = Nil THEN Nil ELSE Wrap("failed to stop process", e)

\* A shutdown that returns the error of Close when there is one.
ShutdownResult_CloseError(closeErr, stopErr) ==
    IF closeErr # Nil THEN closeErr ELSE stopErr

\* Manager.shutdown, lines 162-168: what shutdown returns, from the results of
\* fileWatcher.Close and processManager.Stop.
ShutdownResult(closeErr, stopErr) == stopErr

\* A Run that logs a failed Restart and goes on.
AfterRestart_GoesOn(e) == "continue"

\* Manager.Run, lines 112-115: what follows Restart's result.
AfterRestart(e) == IF e # Nil THEN "return" ELSE "continue"

\* A Run that returns the child's error when the child's exit ended it.
RunReturn_ChildError(why, exit, shutdownErr) ==
    IF why = "exit" /\ exit # <<>> /\ exit[1].err # Nil THEN exit[1].err
    ELSE shutdownErr

\* A Run that reports every exit of the child as a failure.
RunReturn_ExitFails(why, exit, shutdownErr) ==
    IF why = "exit" /\ shutdownErr = Nil THEN <<"child process exited">>
    ELSE shutdownErr

\* Manager.Run, lines 108, 137 and 141: return m.shutdown().  What Run returns
\* after a shutdown, from the loop's reason for it (why), the exit result that
\* caused it (<<>> if none) and the result of shutdown.
RunReturn(why, exit, shutdownErr) == shutdownErr

\* Stop returns e to its caller: Restart (which fails with it, and Run returns
\* that, or goes on to its settle pause) or shutdown (which returns it, and Run
\* returns that).
StopReturn(e) ==
    /\ stopTimeoutArg' = 0
    /\ stopCaller' = "none"
    /\ stopRes' = <<e>>
    /\ IF stopCaller = "Restart"
         THEN IF AfterRestart(RestartStopErr(e)) = "return"
                THEN pc' = "Done" /\ ret' = RestartStopErr(e)
                ELSE pc' = "RestartSleep" /\ ret' = ret
         ELSE /\ pc' = "Done"
              /\ ret' = RunReturn(hist.why, hist.exit,
                                  ShutdownResult(hist.closeErr, e))

\* Stop, lines 103-120: no process, or SIGTERM to the process.
StopBegin ==
    /\ pc = "Stop"
    /\ IF cmd = 0 \/ proc[cmd].status = "failed"
         THEN /\ StopReturn(Nil)
              /\ UNCHANGED <<proc, stopDone, hist>>
         ELSE \E e \in SignalResults(cmd) :
                CASE AfterSigterm(e) = "wait" ->
                       /\ proc' = [proc EXCEPT ![cmd].term = TRUE]
                       /\ stopDone' = "waiting"
                       /\ pc' = "StopSelect"
                       /\ UNCHANGED <<stopCaller, stopTimeoutArg, stopRes, ret,
                                      hist>>
                  [] AfterSigterm(e) = "return nil" ->
                       /\ StopReturn(Nil)
                       /\ UNCHANGED <<proc, stopDone, hist>>
                  [] OTHER ->
                       /\ StopReturn(e)
                       /\ UNCHANGED <<proc, stopDone, hist>>
    /\ UNCHANGED <<sigChan, ctxDone, runExitChan, repWaiting, repHold,
                   restartFlag, cmd, mon, pmExitChan, watchVars, envVars>>

\* Stop's goroutine, lines 126-129: m.cmd.Process.Wait() returns once the
\* process has terminated (reaping it unless it was reaped), then done <- err.
StopWaiter ==
    /\ stopDone = "waiting"
    /\ proc[cmd].status \in {"zombie", "reaped"}
    /\ stopDone' = "ready"
    /\ proc' = IF proc[cmd].status = "zombie"
                 THEN [proc EXCEPT ![cmd].status = "reaped"]
                 ELSE proc
    /\ UNCHANGED <<restartFlag, cmd, mon, pmExitChan, runVars, watchVars, envVars, hist>>

\* Stop, lines 132-134: case <-done.
StopDone ==
    /\ pc = "StopSelect"
    /\ stopDone = "ready"
    /\ StopReturn(Nil)
    /\ stopDone' = "none"
    /\ UNCHANGED <<sigChan, ctxDone, runExitChan, repWaiting, repHold,
                   restartFlag, cmd, proc, mon, pmExitChan, watchVars, envVars, hist>>

\* Stop, lines 135-138: case <-time.After(timeout): return m.cmd.Process.Kill().
StopTimeout_Kill ==
    /\ pc = "StopSelect"
    /\ \E e \in SignalResults(cmd) :
         /\ StopReturn(e)
         /\ proc' = IF e = Nil THEN [proc EXCEPT ![cmd].kill = TRUE] ELSE proc
    /\ stopDone' = "none"
    /\ UNCHANGED <<sigChan, ctxDone, runExitChan, repWaiting, repHold,
                   restartFlag, cmd, mon, pmExitChan, watchVars, envVars, hist>>

\* Restart, lines 88-90: time.Sleep(100ms); m.restartFlag = false.
RestartSleep ==
    /\ pc = "RestartSleep"
    /\ restartFlag' = FALSE
    /\ pc' = "RestartStart"
    /\ UNCHANGED <<stopCaller, stopTimeoutArg, stopRes, ret, sigChan, ctxDone, runExitChan,
                   repWaiting, repHold, cmd, proc, mon, pmExitChan, stopDone,
                   watchVars, envVars, hist>>

\* The child process of run r terminates: on its own, or because of a signal
\* it was sent (SIGTERM or SIGKILL by Stop, SIGKILL by exec.CommandContext once
\* the context is cancelled).  It exits cleanly or with an error status; a
\* process that was sent SIGKILL is reported as killed.
ExitStatuses(r) ==
    IF proc[r].kill \/ ctxDone THEN {ErrExit} ELSE {Nil, ErrExit}

ChildExit(r) ==
    /\ proc[r].status = "live"
    /\ \E e \in ExitStatuses(r) :
         proc' = [proc EXCEPT ![r].status = "zombie", ![r].err = e,
                    ![r].cause = IF proc[r].term \/ proc[r].kill \/ ctxDone
                                   THEN "signal" ELSE "self",
                    ![r].flag = restartFlag]
    /\ UNCHANGED <<restartFlag, cmd, mon, pmExitChan, stopDone, runVars,
                   watchVars, envVars, hist>>

(***************************************************************************)
(* internal/watcher: fileWatcher                                           *)
(***************************************************************************)

\* checkFileChanged, line 199: the comparison of a stat result with the
\* recorded baseline.
Changed(new, old) == new.mt > old.mt \/ (new.ino # 0 /\ new.ino # old.ino)

\* A check that takes a failed stat for a change.
checkFileChanged_StatErrorIsChange(statOk, observed, recorded) ==
    ~statOk \/ Changed(observed, recorded)

\* checkFileChanged, lines 184-199: the answer of one call, given whether
\* os.Stat succeeded, what it showed and the baseline the comparison read.  A
\* failed stat answers false.  The comparison reads fw.lastModTime, then
\* fw.lastInode; modification times never go back here, so reading both at
\* once gives no answer that reading them one after the other could not give.
checkFileChanged(statOk, observed, recorded) ==
    statOk /\ Changed(observed, recorded)

\* A push that queues behind a pending notification.
Push_Queues(n) == n + 1

\* A non-blocking push on changeChan (select with default): dropped when a
\* notification is pending.
Push(n) == IF n < 1 THEN n + 1 ELSE n

\* A loop that logs the cancellation and goes on.
Running_AfterStop(g) == g.pc \in {"select", "stopped"}

\* watch and poll, the for loops at lines 164 and 215: the goroutine is at
\* its select; it has not returned.
Running(g) == g.pc = "select"

\* The context is cancelled and watch and poll have both returned.
Stopped == ctxDone /\ watchG.pc = "stopped" /\ pollG.pc = "stopped"

\* The watched file is modified, at most maxChanges times: written in place
\* (the modification time advances), replaced by another file (symlink swap,
\* remove and create: the identity differs), or the symlink is put back to the
\* previous file ("revert"); a file that does not exist is created.  fsnotify
\* may or may not deliver an event for it, and queues at most maxEvents.
Modify(maxChanges, maxEvents) ==
    /\ hist.changes < maxChanges
    /\ burst # "over"
    /\ \E kind \in (IF file.ino = 0 THEN {"create"}
                    ELSE IF file.ino > 1 THEN {"write", "swap", "revert"}
                    ELSE {"write", "swap"}) :
         file' = CASE kind = "create" -> [mt |-> file.mt + 1, ino |-> 1]
                   [] kind = "write" -> [file EXCEPT !.mt = @ + 1]
                   [] kind = "swap" -> [file EXCEPT !.ino = @ + 1]
                   [] kind = "revert" -> [file EXCEPT !.ino = @ - 1]
    /\ \E delivered \in BOOLEAN :
         fsEvents' = IF delivered /\ watcherKind = "active" /\ ~watcherClosed
                        /\ fsEvents < maxEvents
                       THEN fsEvents + 1 ELSE fsEvents
    /\ hist' = [hist EXCEPT !.changes = @ + 1,
                            !.inLoop = pc \notin {"Start", "StartWatcher", "Done"},
                            !.afterStop = @ \/ Stopped]
    /\ UNCHANGED <<watcherKind, watcherClosed, last, changeChan, watchG, pollG,
                   debounceTimer, callbacks, runVars, procVars, envVars>>

FileChange == Modify(MaxChanges, MaxEvents)

\* watch, lines 217-219 and 221-225: the context is done, or the Events
\* channel was closed by Close.
WatchStop ==
    /\ Running(watchG)
    /\ ctxDone \/ watcherClosed
    /\ watchG' = [watchG EXCEPT !.pc = "stopped"]
    /\ UNCHANGED <<watcherKind, watcherClosed, file, last, changeChan, fsEvents,
                   pollG, debounceTimer, callbacks, runVars, procVars, envVars, hist>>

\* watch, lines 221-260: a relevant event is read; checkFileChanged stats the
\* file (statOk: os.Stat succeeds) and compares it with the baseline.
WatchEventWith(statOk) ==
    /\ Running(watchG)
    /\ ~watcherClosed
    /\ fsEvents > 0
    /\ fsEvents' = fsEvents - 1
    /\ watchG' = IF checkFileChanged(statOk, file, last)
                   THEN [pc |-> "changed", snap |-> file]
                   ELSE watchG
    /\ hist' = [hist EXCEPT !.statFailed = @ \/ ~statOk]
    /\ UNCHANGED <<watcherKind, watcherClosed, file, last, changeChan, pollG,
                   debounceTimer, callbacks, runVars, procVars, envVars>>

WatchEvent == \E statOk \in Outcomes : WatchEventWith(statOk)

\* checkFileChanged, line 202, called by watch: fw.lastModTime is written.
WatchWrite ==
    /\ watchG.pc = "changed"
    /\ last' = [last EXCEPT !.mt = watchG.snap.mt]
    /\ watchG' = [watchG EXCEPT !.pc = "writing"]
    /\ UNCHANGED <<watcherKind, watcherClosed, file, changeChan, fsEvents, pollG,
                   debounceTimer, callbacks, runVars, procVars, envVars, hist>>

\* checkFileChanged, line 203, then watch, lines 262-275: fw.lastInode is
\* written, the debounce timer is stopped and a new one armed.
WatchConfirm ==
    /\ watchG.pc = "writing"
    /\ last' = [last EXCEPT !.ino = watchG.snap.ino]
    /\ debounceTimer' = "armed"
    /\ watchG' = [watchG EXCEPT !.pc = "select"]
    /\ hist' = [hist EXCEPT !.timers = @ + 1, !.armedAt = hist.changes]
    /\ UNCHANGED <<watcherKind, watcherClosed, file, changeChan, fsEvents, pollG,
                   callbacks, runVars, procVars, envVars>>

\* The debounce timer expires: the function given to time.AfterFunc (lines
\* 267-275) is started in a goroutine of its own.  debounceTimer.Stop() has
\* no effect on it from here on.  A timer armed during a burst of rapid
\* modifications does not expire before the next modification of the burst:
\* that one comes less than the debounce period after the one before it.
DebounceFire ==
    /\ debounceTimer = "armed"
    /\ burst = "rapid" => hist.changes > hist.armedAt
    /\ debounceTimer' = "nil"
    /\ callbacks' = callbacks \cup {hist.timers}
    /\ UNCHANGED <<watcherKind, watcherClosed, file, last, changeChan, fsEvents,
                   watchG, pollG, runVars, procVars, envVars, hist>>

\* The function of timer t, lines 268-274: the non-blocking push.
DebouncePush(t) ==
    /\ t \in callbacks
    /\ callbacks' = callbacks \ {t}
    /\ changeChan' = Push(changeChan)
    /\ hist' = [hist EXCEPT !.dropped = @ \/ changeChan = 1]
    /\ UNCHANGED <<watcherKind, watcherClosed, file, last, fsEvents, watchG, pollG,
                   debounceTimer, runVars, procVars, envVars>>

\* poll, lines 166-168.
PollStop ==
    /\ Running(pollG)
    /\ ctxDone
    /\ pollG' = [pollG EXCEPT !.pc = "stopped"]
    /\ UNCHANGED <<watcherKind, watcherClosed, file, last, changeChan, fsEvents,
                   watchG, debounceTimer, callbacks, runVars, procVars, envVars, hist>>

\* poll, lines 169-170: the ticker fires; checkFileChanged stats and compares.
\* A burst of rapid modifications is shorter than the poll interval: the
\* ticker fires at most once in it.
PollTickWith(statOk) ==
    /\ Running(pollG)
    /\ (burst = "rapid" /\ hist.changes > 0) => hist.ticks = 0
    /\ pollG' = IF checkFileChanged(statOk, file, last)
                  THEN [pc |-> "changed", snap |-> file]
                  ELSE pollG
    /\ hist' = [hist EXCEPT !.ticks = IF burst = "rapid" /\ hist.changes > 0
                                        THEN 1 ELSE @,
                            !.statFailed = @ \/ ~statOk]
    /\ UNCHANGED <<watcherKind, watcherClosed, file, last, changeChan, fsEvents,
                   watchG, debounceTimer, callbacks, runVars, procVars, envVars>>

PollTick == \E statOk \in Outcomes : PollTickWith(statOk)

\* checkFileChanged, line 202, called by poll: fw.lastModTime is written.
PollWrite ==
    /\ pollG.pc = "changed"
    /\ last' = [last EXCEPT !.mt = pollG.snap.mt]
    /\ pollG' = [pollG EXCEPT !.pc = "writing"]
    /\ UNCHANGED <<watcherKind, watcherClosed, file, changeChan, fsEvents, watchG,
                   debounceTimer, callbacks, runVars, procVars, envVars, hist>>

\* A poller that debounces as the event path does.
PollConfirm_Debounced ==
    /\ pollG.pc = "writing"
    /\ last' = [last EXCEPT !.ino = pollG.snap.ino]
    /\ debounceTimer' = "armed"
    /\ pollG' = [pollG EXCEPT !.pc = "select"]
    /\ hist' = [hist EXCEPT !.timers = @ + 1, !.armedAt = hist.changes]
    /\ UNCHANGED <<watcherKind, watcherClosed, file, changeChan, fsEvents, watchG,
                   callbacks, runVars, procVars, envVars>>

\* checkFileChanged, line 203, then poll, lines 171-177: fw.lastInode is
\* written and the notification pushed without blocking.
PollConfirm ==
    /\ pollG.pc = "writing"
    /\ last' = [last EXCEPT !.ino = pollG.snap.ino]
    /\ changeChan' = Push(changeChan)
    /\ pollG' = [pollG EXCEPT !.pc = "select"]
    /\ hist' = [hist EXCEPT !.dropped = @ \/ changeChan = 1]
    /\ UNCHANGED <<watcherKind, watcherClosed, file, fsEvents, watchG,
                   debounceTimer, callbacks, runVars, procVars, envVars>>

\* fileWatcher.Start, lines 131-141: watch and poll are spawned.
\* noopWatcher.Start, lines 37-39, spawns nothing.
WatcherStart ==
    IF watcherKind = "active"
      THEN /\ watchG' = [watchG EXCEPT !.pc = "select"]
           /\ pollG' = [pollG EXCEPT !.pc = "select"]
      ELSE UNCHANGED <<watchG, pollG>>

(***************************************************************************)
(* internal/manager: Manager.Run and Manager.shutdown                      *)
(***************************************************************************)

\* Run, lines 74-77: the first Start.
RunStart ==
    /\ pc = "Start"
    /\ \E execOk \in Outcomes :
         LET e == CmdStart(execOk) IN
         /\ Start(e)
         /\ IF StartErr(e) = Nil
              THEN pc' = "StartWatcher" /\ ret' = ret
              ELSE /\ pc' = "Done"
                   /\ ret' = Wrap("failed to start child process", StartErr(e))
         /\ hist' = [hist EXCEPT !.served = IF e = Nil THEN hist.changes ELSE @]
    /\ UNCHANGED <<stopCaller, stopTimeoutArg, stopRes, sigChan, ctxDone, runExitChan,
                   repWaiting, repHold, restartFlag, pmExitChan, stopDone,
                   watchVars, envVars>>

\* Run, lines 82-99: fileWatcher.Start spawns watch and poll (noopWatcher
\* spawns nothing), then the goroutine awaiting Wait() is spawned.
RunStartWatcher ==
    /\ pc = "StartWatcher"
    /\ WatcherStart
    /\ repWaiting' = repWaiting + 1
    /\ pc' = "Loop"
    /\ UNCHANGED <<stopCaller, stopTimeoutArg, stopRes, ret, sigChan, ctxDone, runExitChan,
                   repHold, procVars, watcherKind, watcherClosed, file, last,
                   changeChan, fsEvents, debounceTimer, callbacks, envVars, hist>>

\* Run's goroutines, lines 96-99 and 119-122: m.processManager.Wait().
RepWait ==
    /\ repWaiting > 0
    /\ pmExitChan # <<>>
    /\ repWaiting' = repWaiting - 1
    /\ repHold' = repHold \cup {Head(pmExitChan)}
    /\ pmExitChan' = Tail(pmExitChan)
    /\ UNCHANGED <<pc, stopCaller, stopTimeoutArg, stopRes, ret, sigChan, ctxDone,
                   runExitChan, restartFlag, cmd, proc, mon, stopDone, watchVars,
                   envVars, hist>>

\* Run's goroutines: exitChan <- exitResult{...}, blocking while it is full.
RepSend ==
    /\ Len(runExitChan) < 1
    /\ \E i \in repHold :
         /\ runExitChan' = Append(runExitChan, i)
         /\ repHold' = repHold \ {i}
    /\ UNCHANGED <<pc, stopCaller, stopTimeoutArg, stopRes, ret, sigChan, ctxDone,
                   repWaiting, procVars, watchVars, envVars, hist>>

\* A loop that logs the signal and goes on.
OnSignal_GoesOn == "continue"

\* Run, lines 106-108: what the loop does with a signal.
OnSignal == "shutdown"

\* Run, lines 106-108: case sig := <-sigChan.
LoopSignal ==
    /\ pc = "Loop"
    /\ sigChan > 0
    /\ sigChan' = sigChan - 1
    /\ IF OnSignal = "shutdown"
         THEN pc' = "shutdown" /\ hist' = [hist EXCEPT !.why = "signal"]
         ELSE pc' = "Loop" /\ hist' = hist
    /\ UNCHANGED <<stopCaller, stopTimeoutArg, stopRes, ret, ctxDone, runExitChan,
                   repWaiting, repHold, procVars, watchVars, envVars>>

\* Run, lines 110-112, and Restart, lines 80-82: case <-m.fileWatcher.Changes();
\* Restart sets the flag and calls Stop.
LoopChange ==
    /\ pc = "Loop"
    /\ watcherKind = "active"
    /\ changeChan > 0
    /\ NextRun <= MaxRuns
    /\ changeChan' = changeChan - 1
    /\ restartFlag' = TRUE
    /\ pc' = "Stop"
    /\ stopCaller' = "Restart"
    /\ stopTimeoutArg' = StopTimeout
    /\ hist' = [hist EXCEPT !.restarts = @ + 1,
                            !.restarted = IF cmd # 0 /\ proc[cmd].status = "live"
                                            THEN @ \cup {cmd} ELSE @]
    /\ UNCHANGED <<stopRes, ret, sigChan, ctxDone, runExitChan, repWaiting, repHold, cmd,
                   proc, mon, pmExitChan, stopDone, watcherKind, watcherClosed,
                   file, last, fsEvents, watchG, pollG, debounceTimer, callbacks, envVars>>

\* Restart, line 92, and Run, lines 112-122: Start; on failure Run returns
\* Restart's error, on success it spawns the goroutine awaiting Wait().
RestartStart ==
    /\ pc = "RestartStart"
    /\ \E execOk \in Outcomes :
         LET e == CmdStart(execOk) IN
         /\ Start(e)
         /\ IF AfterRestart(StartErr(e)) = "return"
              THEN pc' = "Done" /\ ret' = StartErr(e) /\ repWaiting' = repWaiting
              ELSE pc' = "Loop" /\ ret' = ret /\ repWaiting' = repWaiting + 1
         /\ hist' = [hist EXCEPT !.served = IF e = Nil THEN hist.changes ELSE @]
    /\ UNCHANGED <<stopCaller, stopTimeoutArg, stopRes, sigChan, ctxDone, runExitChan,
                   repHold, restartFlag, pmExitChan, stopDone, watchVars, envVars>>

\* A loop that takes a clean exit of the child for a harmless one.
OnExit_CleanExitContinues(result) ==
    IF result.reason = "Restart" \/ result.err = Nil THEN "continue" ELSE "shutdown"

\* Run, lines 126-137: what the loop does with an exit result.
OnExit(result) == IF result.reason = "Restart" THEN "continue" ELSE "shutdown"

\* Run, lines 124-137: case result := <-exitChan.
LoopExit ==
    /\ pc = "Loop"
    /\ runExitChan # <<>>
    /\ runExitChan' = Tail(runExitChan)
    /\ IF OnExit(Head(runExitChan)) = "continue"
         THEN pc' = "Loop" /\ hist' = hist
         ELSE /\ pc' = "shutdown"
              /\ hist' = [hist EXCEPT !.why = "exit", !.exit = <<Head(runExitChan)>>]
    /\ UNCHANGED <<stopCaller, stopTimeoutArg, stopRes, ret, sigChan, ctxDone, repWaiting,
                   repHold, procVars, watchVars, envVars>>

\* Run, lines 139-141: case <-m.ctx.Done().
LoopCtxDone ==
    /\ pc = "Loop"
    /\ ctxDone
    /\ pc' = "shutdown"
    /\ hist' = [hist EXCEPT !.why = "ctx"]
    /\ UNCHANGED <<stopCaller, stopTimeoutArg, stopRes, ret, sigChan, ctxDone, runExitChan,
                   repWaiting, repHold, procVars, watchVars, envVars>>

\* shutdown: the order of its steps; NextStep(s) is the step after s.
NextStep(s) ==
    CASE s = "shutdown" -> "cancel"
      [] s = "cancel" -> "close"
      [] s = "close" -> "stop"

\* shutdown, line 151: m.cancel().
ShutdownCancel ==
    /\ pc \in {"shutdown", "cancel", "close"}
    /\ NextStep(pc) = "cancel"
    /\ ctxDone' = cancel(ctxDone)
    /\ pc' = "cancel"
    /\ hist' = [hist EXCEPT !.steps = Append(@, "cancel")]
    /\ UNCHANGED <<stopCaller, stopTimeoutArg, stopRes, ret, sigChan, runExitChan,
                   repWaiting, repHold, procVars, watchVars, envVars>>

\* shutdown, lines 155-159: m.fileWatcher.Close(); its error is logged.
ShutdownClose ==
    /\ pc \in {"shutdown", "cancel", "close"}
    /\ NextStep(pc) = "close"
    /\ \E e \in (IF watcherKind = "active"
                   THEN {IF ok THEN Nil ELSE ErrClose : ok \in Outcomes}
                   ELSE {Nil}) :
         hist' = [hist EXCEPT !.steps = Append(@, "close"), !.closeErr = e]
    /\ watcherClosed' = (watcherKind = "active")
    /\ fsEvents' = 0
    /\ pc' = "close"
    /\ UNCHANGED <<stopCaller, stopTimeoutArg, stopRes, ret, sigChan, ctxDone, runExitChan,
                   repWaiting, repHold, procVars, watcherKind, file, last,
                   changeChan, watchG, pollG, debounceTimer, callbacks, envVars>>

\* shutdown, line 162: m.processManager.Stop(10 * time.Second) is called.
ShutdownStop ==
    /\ pc \in {"shutdown", "cancel", "close"}
    /\ NextStep(pc) = "stop"
    /\ pc' = "Stop"
    /\ stopCaller' = "shutdown"
    /\ stopTimeoutArg' = StopTimeout
    /\ hist' = [hist EXCEPT !.steps = Append(@, "stop")]
    /\ UNCHANGED <<stopRes, ret, sigChan, ctxDone, runExitChan, repWaiting,
                   repHold, procVars, watchVars, envVars>>

\* SIGINT or SIGTERM is delivered to the manager while Run is running:
\* signal.Notify sends without blocking, dropping it when sigChan is full.
\* Once Run has left its loop sigChan is never read again, and a signal
\* delivered then changes nothing Run does.
Signal ==
    /\ pc # "Done"
    /\ hist.why = "none"
    /\ sigChan = 0
    /\ sigChan' = 1
    /\ UNCHANGED <<pc, stopCaller, stopTimeoutArg, stopRes, ret, ctxDone, runExitChan,
                   repWaiting, repHold, procVars, watchVars, envVars, hist>>

\* Another holder of the Manager calls m.cancel() while Run is running.
ExternalCancel ==
    /\ pc # "Done"
    /\ ctxDone' = cancel(ctxDone)
    /\ hist' = IF ctxDone THEN hist
               ELSE [hist EXCEPT !.extCancel =
                       IF pc = "Loop" /\ cmd # 0 /\ proc[cmd].status = "live"
                         THEN "loop" ELSE "other"]
    /\ UNCHANGED <<pc, stopCaller, stopTimeoutArg, stopRes, ret, sigChan, runExitChan,
                   repWaiting, repHold, procVars, watchVars, envVars>>

\* The detector seen from Run: poll (lines 172-177) or the debounce callback
\* (lines 269-274) pushes a notification without blocking.  Only a fileWatcher
\* has a channel; Changes() of a noopWatcher is nil.
ChangeNotified ==
    /\ watcherKind = "active"
    /\ hist.changes < MaxChanges
    /\ changeChan' = Push(changeChan)
    /\ hist' = [hist EXCEPT !.changes = @ + 1, !.dropped = @ \/ changeChan = 1]
    /\ UNCHANGED <<watcherKind, watcherClosed, file, last, fsEvents, watchG, pollG,
                   debounceTimer, callbacks, runVars, procVars, envVars>>

(***************************************************************************)
(* The system                                                              *)
(***************************************************************************)

NoProc == [status |-> "none", err |-> Nil, term |-> FALSE, kill |-> FALSE,
           cause |-> "none", flag |-> FALSE]
NoMon == [st |-> "none", run |-> 0, err |-> Nil, reason |-> "Unknown"]
File0 == [mt |-> 0, ino |-> 1]
NoFile == [mt |-> 0, ino |-> 0]

\* The watched path given to New: empty, naming no file, or naming a file.
Paths == {"", "missing", "present"}

\* A constructor that leaves out the os.IsNotExist test.
NewFileWatcher_WatchesMissing(path) ==
    IF path = ""
      THEN watcherKind = "noop" /\ file = NoFile /\ last = NoFile
      ELSE /\ watcherKind = "active"
           /\ file = (IF path = "missing" THEN NoFile ELSE File0)
           /\ last = file

\* NewFileWatcher, lines 51-128: a noopWatcher, which records nothing, when
\* the path is empty or the file does not exist; else a fileWatcher whose
\* baseline is the file as it is.
NewFileWatcher(path) ==
    IF path = "" \/ path = "missing"
      THEN watcherKind = "noop" /\ file = NoFile /\ last = NoFile
      ELSE watcherKind = "active" /\ file = File0 /\ last = File0

\* After New(config): NewManager, NewFileWatcher (a noopWatcher when the path
\* is empty or missing, else a fileWatcher with the baseline of the file as it
\* is), a fresh context; Run is about to call Start.
InitState ==
    /\ pc = "Start"
    /\ stopCaller = "none"
    /\ stopTimeoutArg = 0
    /\ stopRes = <<>>
    /\ ret = Nil
    /\ sigChan = 0
    /\ ctxDone = FALSE
    /\ runExitChan = <<>>
    /\ repWaiting = 0
    /\ repHold = {}
    /\ restartFlag = FALSE
    /\ cmd = 0
    /\ proc = [r \in Runs |-> NoProc]
    /\ mon = [r \in Runs |-> NoMon]
    /\ pmExitChan = <<>>
    /\ stopDone = "none"
    /\ \E path \in Paths : NewFileWatcher(path)
    /\ watcherClosed = FALSE
    /\ changeChan = 0
    /\ fsEvents = 0
    /\ watchG = [pc |-> "off", snap |-> File0]
    /\ pollG = [pc |-> "off", snap |-> File0]
    /\ debounceTimer = "nil"
    /\ callbacks = {}
    /\ hist = [steps |-> <<>>, why |-> "none", exit |-> <<>>, closeErr |-> Nil,
               extCancel |-> "no", changes |-> 0, served |-> 0, inLoop |-> FALSE,
               restarts |-> 0, restarted |-> {}, calls |-> <<>>,
               stopAt |-> "none", dropped |-> FALSE, timers |-> 0,
               armedAt |-> 0, ticks |-> 0, received |-> 0, statFailed |-> FALSE,
               afterStop |-> FALSE, pendingAtCancel |-> 0]

\* Run and the process manager.
NextRunLoop ==
    \/ RunStart
    \/ RunStartWatcher
    \/ LoopSignal
    \/ LoopChange
    \/ LoopExit
    \/ LoopCtxDone
    \/ ShutdownCancel
    \/ ShutdownClose
    \/ ShutdownStop
    \/ StopBegin
    \/ StopWaiter
    \/ StopDone
    \/ StopTimeout_Kill
    \/ RestartSleep
    \/ RestartStart
    \/ RepWait
    \/ RepSend
    \/ \E r \in Runs : MonWait(r)
    \/ \E r \in Runs : MonClassify(r)
    \/ \E r \in Runs : MonSend(r)
    \/ \E r \in Runs : ChildExit(r)
    \/ Signal
    \/ ExternalCancel

\* The file watcher.
NextWatcher ==
    \/ WatchStop
    \/ WatchEvent
    \/ WatchWrite
    \/ WatchConfirm
    \/ DebounceFire
    \/ \E t \in callbacks : DebouncePush(t)
    \/ PollStop
    \/ PollTick
    \/ PollWrite
    \/ PollConfirm
    \/ FileChange

\* Run and the process manager, with the detector seen as the source of the
\* notifications on changeChan.
Next == NextRunLoop \/ ChangeNotified

Init == InitState /\ faults = TRUE /\ burst = "free"

Spec == Init /\ [][Next]_vars

\* The steps of the goroutine that called Run.
RunSteps ==
    \/ RunStart
    \/ RunStartWatcher
    \/ LoopSignal
    \/ LoopChange
    \/ LoopExit
    \/ LoopCtxDone
    \/ ShutdownCancel
    \/ ShutdownClose
    \/ ShutdownStop
    \/ StopBegin
    \/ StopDone
    \/ StopTimeout_Kill
    \/ RestartSleep
    \/ RestartStart

\* The goroutine that called Run is scheduled while it can take a step: a
\* select with a ready case proceeds, time.After and time.Sleep elapse.
FairSpec == Spec /\ WF_vars(RunSteps)

\* A child that exits only when it is signalled (sleep 30).
ChildKilled(r) ==
    /\ proc[r].term \/ proc[r].kill \/ ctxDone
    /\ ChildExit(r)

\* End to end: Run, the process manager and the file watcher, with a
\* long-running child, an existing watched file, no signal, no cancellation
\* from outside and an environment that does not fail.
InitE2E ==
    InitState /\ faults = FALSE /\ burst = "free" /\ watcherKind = "active"

NextE2E ==
    \/ RunStart
    \/ RunStartWatcher
    \/ LoopChange
    \/ LoopExit
    \/ ShutdownCancel
    \/ ShutdownClose
    \/ ShutdownStop
    \/ StopBegin
    \/ StopWaiter
    \/ StopDone
    \/ StopTimeout_Kill
    \/ RestartSleep
    \/ RestartStart
    \/ RepWait
    \/ RepSend
    \/ \E r \in Runs : MonWait(r)
    \/ \E r \in Runs : MonClassify(r)
    \/ \E r \in Runs : MonSend(r)
    \/ \E r \in Runs : ChildKilled(r)
    \/ NextWatcher

SpecE2E == InitE2E /\ [][NextE2E]_vars

\* The same with any watched path, and with SIGINT or SIGTERM ending Run.
InitDet == InitState /\ faults = FALSE /\ burst = "free"

NextDet ==
    \/ NextE2E
    \/ Signal
    \/ LoopSignal

SpecDet == InitDet /\ [][NextDet]_vars

(***************************************************************************)
(* The file watcher and its user                                           *)
(***************************************************************************)

\* fw.Start(ctx) is called on a fileWatcher.
FWStart ==
    /\ watcherKind = "active"
    /\ watchG.pc = "off"
    /\ WatcherStart
    /\ UNCHANGED <<watcherKind, watcherClosed, file, last, changeChan, fsEvents,
                   debounceTimer, callbacks, runVars, procVars, envVars, hist>>

\* The context given to fw.Start is cancelled.
FWCancel ==
    /\ ~ctxDone
    /\ ctxDone' = cancel(ctxDone)
    /\ UNCHANGED <<pc, stopCaller, stopTimeoutArg, stopRes, ret, sigChan,
                   runExitChan, repWaiting, repHold, procVars, watchVars,
                   envVars, hist>>

\* The same, with the history noting the debounce timer that is pending at
\* the moment of the cancellation (0: none).
FWCancelPending ==
    /\ ~ctxDone
    /\ ctxDone' = cancel(ctxDone)
    /\ hist' = [hist EXCEPT !.pendingAtCancel =
                   IF debounceTimer = "armed" THEN hist.timers ELSE 0]
    /\ UNCHANGED <<pc, stopCaller, stopTimeoutArg, stopRes, ret, sigChan,
                   runExitChan, repWaiting, repHold, procVars, watchVars,
                   envVars>>

\* fw.Close(), lines 149-155: the fsnotify watcher is closed, its Events
\* channel with it.
FWClose ==
    /\ ~watcherClosed
    /\ watcherClosed' = TRUE
    /\ fsEvents' = 0
    /\ UNCHANGED <<watcherKind, file, last, changeChan, watchG, pollG,
                   debounceTimer, callbacks, runVars, procVars, envVars, hist>>

\* The user receives from fw.Changes().
Consume ==
    /\ changeChan > 0
    /\ changeChan' = changeChan - 1
    /\ hist' = [hist EXCEPT !.received = @ + 1]
    /\ UNCHANGED <<watcherKind, watcherClosed, file, last, fsEvents, watchG, pollG,
                   debounceTimer, callbacks, runVars, procVars, envVars>>

\* The file is modified up to MaxMods times while the watcher is started.
FWFileChange == watchG.pc # "off" /\ Modify(MaxMods, MaxMods)

\* A burst of rapid modifications has ended: the debounce period has passed
\* since its last modification and no other follows.
BurstOver ==
    /\ burst = "rapid"
    /\ hist.changes > 0
    /\ burst' = "over"
    /\ UNCHANGED <<faults, runVars, procVars, watchVars, hist>>

\* A fileWatcher of an existing file, as the tests of the watcher use it:
\* started, the file modified at any times ("free") or in one burst of rapid
\* modifications ("rapid"), the notifications read, the context cancelled,
\* the watcher closed; os.Stat may fail or not.
InitFW ==
    /\ InitState
    /\ watcherKind = "active"
    /\ faults \in BOOLEAN
    /\ burst \in {"free", "rapid"}

NextFW ==
    \/ FWStart
    \/ FWCancel
    \/ FWClose
    \/ Consume
    \/ FWFileChange
    \/ BurstOver
    \/ WatchStop
    \/ WatchEvent
    \/ WatchWrite
    \/ WatchConfirm
    \/ DebounceFire
    \/ \E t \in callbacks : DebouncePush(t)
    \/ PollStop
    \/ PollTick
    \/ PollWrite
    \/ PollConfirm

SpecFW == InitFW /\ [][NextFW]_vars

\* The fileWatcher whose context is cancelled while the file is modified
\* once: what was pending at the cancellation is kept in the history.
NextFWCancel ==
    \/ FWStart
    \/ FWCancelPending
    \/ FWClose
    \/ Consume
    \/ watchG.pc # "off" /\ FileChange
    \/ BurstOver
    \/ WatchStop
    \/ WatchEvent
    \/ WatchWrite
    \/ WatchConfirm
    \/ DebounceFire
    \/ \E t \in callbacks : DebouncePush(t)
    \/ PollStop
    \/ PollTick
    \/ PollWrite
    \/ PollConfirm

SpecFWCancel == InitFW /\ [][NextFWCancel]_vars

(***************************************************************************)
(* The process manager and its caller                                      *)
(***************************************************************************)

\* The caller of the process manager is between two calls: it has called
\* nothing yet, or its last call has returned.
CallerIdle == pc \in {"Start", "Done"}

\* The caller makes another call of Start, Stop or Restart.
CallerCalls == CallerIdle /\ Len(hist.calls) < MaxCalls

\* The state of the process handle as Stop's first test sees it.
HandleState ==
    IF cmd = 0 THEN "nil" ELSE proc[cmd].status

\* m.Start(ctx) called by the caller.
CallStart ==
    /\ CallerCalls
    /\ NextRun <= MaxRuns
    /\ \E execOk \in Outcomes :
         LET e == CmdStart(execOk) IN
         /\ Start(e)
         /\ ret' = StartErr(e)
    /\ pc' = "Done"
    /\ hist' = [hist EXCEPT !.calls = Append(@, "Start")]
    /\ UNCHANGED <<stopCaller, stopTimeoutArg, stopRes, sigChan, ctxDone, runExitChan,
                   repWaiting, repHold, restartFlag, pmExitChan, stopDone,
                   watchVars, envVars>>

\* m.Stop(timeout) called by the caller.
CallStop ==
    /\ CallerCalls
    /\ pc' = "Stop"
    /\ stopCaller' = "caller"
    /\ stopTimeoutArg' = CallerTimeout
    /\ hist' = [hist EXCEPT !.calls = Append(@, "Stop"), !.stopAt = HandleState]
    /\ UNCHANGED <<stopRes, ret, sigChan, ctxDone, runExitChan, repWaiting,
                   repHold, procVars, watchVars, envVars>>

\* m.Restart(ctx) called by the caller: Restart, lines 80-82.
CallRestart ==
    /\ CallerCalls
    /\ NextRun <= MaxRuns
    /\ restartFlag' = TRUE
    /\ pc' = "Stop"
    /\ stopCaller' = "Restart"
    /\ stopTimeoutArg' = StopTimeout
    /\ hist' = [hist EXCEPT !.calls = Append(@, "Restart"),
                            !.restarts = @ + 1,
                            !.restarted = IF cmd # 0 /\ proc[cmd].status = "live"
                                            THEN @ \cup {cmd} ELSE @]
    /\ UNCHANGED <<stopRes, ret, sigChan, ctxDone, runExitChan, repWaiting, repHold, cmd,
                   proc, mon, pmExitChan, stopDone, watchVars, envVars>>

\* Restart, line 92: return m.Start(ctx), to the caller.
CallRestartStart ==
    /\ pc = "RestartStart"
    /\ \E execOk \in Outcomes :
         LET e == CmdStart(execOk) IN
         /\ Start(e)
         /\ ret' = StartErr(e)
    /\ pc' = "Done"
    /\ UNCHANGED <<stopCaller, stopTimeoutArg, stopRes, sigChan, ctxDone, runExitChan,
                   repWaiting, repHold, restartFlag, pmExitChan, stopDone,
                   watchVars, envVars, hist>>

\* m.Wait() called in a goroutine of the caller; RepWait is its receive.
CallWait ==
    /\ repWaiting + Cardinality(repHold) < MaxRuns
    /\ repWaiting' = repWaiting + 1
    /\ UNCHANGED <<pc, stopCaller, stopTimeoutArg, stopRes, ret, sigChan, ctxDone,
                   runExitChan, repHold, procVars, watchVars, envVars, hist>>

\* The caller cancels the context it gave to Start.
CallCancel ==
    /\ ~ctxDone
    /\ ctxDone' = cancel(ctxDone)
    /\ UNCHANGED <<pc, stopCaller, stopTimeoutArg, stopRes, ret, sigChan, runExitChan,
                   repWaiting, repHold, procVars, watchVars, envVars, hist>>

InitPM ==
    InitState /\ faults = TRUE /\ burst = "free" /\ watcherKind = "noop"

NextPM ==
    \/ CallStart
    \/ CallStop
    \/ CallRestart
    \/ CallRestartStart
    \/ CallWait
    \/ CallCancel
    \/ StopBegin
    \/ StopWaiter
    \/ StopDone
    \/ StopTimeout_Kill
    \/ RestartSleep
    \/ RepWait
    \/ \E r \in Runs : MonWait(r)
    \/ \E r \in Runs : MonClassify(r)
    \/ \E r \in Runs : MonSend(r)
    \/ \E r \in Runs : ChildExit(r)

SpecPM == InitPM /\ [][NextPM]_vars

\* A process started without the context: cancelling it kills nothing.
Killed_NoContext(r) == proc[r].kill

\* SIGKILL was sent to the process of run r: by Stop's Kill(), or by
\* exec.CommandContext once the context given to Start is done.
Killed(r) == proc[r].kill \/ ctxDone

\* The kernel delivers SIGKILL: the process terminates.
KillDelivered(r) ==
    /\ Killed(r)
    /\ ChildExit(r)

\* The process manager with a caller that never calls Stop or Restart: it
\* calls Start, calls Wait in goroutines, and cancels the context.
NextCtx ==
    \/ CallStart
    \/ CallWait
    \/ CallCancel
    \/ RepWait
    \/ \E r \in Runs : MonWait(r)
    \/ \E r \in Runs : MonClassify(r)
    \/ \E r \in Runs : MonSend(r)
    \/ \E r \in Runs : ChildExit(r)

SpecCtx == InitPM /\ [][NextCtx]_vars

\* The goroutines are scheduled and signals are delivered: a killed process
\* terminates, a monitorProcess that can take a step takes it, a Wait call
\* receives when m.exitChan holds a value.  Nothing is assumed of the caller.
FairSpecCtx ==
    /\ SpecCtx
    /\ \A r \in Runs : WF_vars(KillDelivered(r))
    /\ \A r \in Runs : WF_vars(MonWait(r))
    /\ \A r \in Runs : WF_vars(MonClassify(r))
    /\ \A r \in Runs : WF_vars(MonSend(r))
    /\ WF_vars(RepWait)

(***************************************************************************)
(* Properties                                                              *)
(***************************************************************************)

AllSteps == <<"cancel", "close", "stop">>
ShutdownPcs == {"shutdown", "cancel", "close", "Stop", "StopSelect", "Done"}
RestartPcs == {"Stop", "StopSelect", "RestartSleep", "RestartStart"}

\* The exit result of monitor r was received by the loop.
Received(r) ==
    /\ mon[r].st = "done"
    /\ ExitInfoOf(r) \notin repHold
    /\ pmExitChan # <<ExitInfoOf(r)>>
    /\ runExitChan # <<ExitInfoOf(r)>>

\* Run returned the error of a failed Start or Restart.
StartOrRestartFailed ==
    /\ pc = "Done"
    /\ ret # Nil
    /\ ret[1] \in {"failed to start child process", "failed to stop process",
                   "failed to start process"}
    /\ hist.steps = <<>>

\* Run's result is an error of the environment: kill(2) or the launch failed.
EnvFailed ==
    ret # Nil /\ ret[Len(ret)] \in {ErrPerm[1], ErrExec[1]}

\* C1: when the loop receives an exit result whose reason is Restart it
\* discards it: no shutdown, no cancellation, the loop goes on; for any other
\* reason it starts shutdown, and from then on Run only shuts down and
\* returns: it never starts the child again, and it has performed shutdown
\* when it has returned.
C1_ExitResult ==
    [][ /\ (pc = "Loop" /\ runExitChan # <<>> /\ runExitChan' = <<>>) =>
             IF Head(runExitChan).reason = "Restart"
               THEN /\ pc' = "Loop"
                    /\ ctxDone' = ctxDone
                    /\ hist'.steps = hist.steps
                    /\ hist'.why = "none"
               ELSE pc' = "shutdown" /\ hist'.why = "exit"
        /\ (hist.why = "exit" =>
              /\ pc' \in ShutdownPcs
              /\ NextRun' = NextRun
              /\ (pc' = "Done" => hist'.steps = AllSteps))
      ]_vars

\* C1, witness: Run has returned after the shutdown an exit result caused,
\* having discarded the exit result of a restart before.
C1_Witness ==
    /\ pc = "Done"
    /\ hist.why = "exit"
    /\ hist.steps = AllSteps
    /\ \E r \in Runs : Received(r) /\ mon[r].reason = "Restart"

\* C2 (as claimed): no change is lost.  With a long-running child, no signal,
\* no cancellation and no failure of the environment, when Run has returned
\* after a change made while it was in its loop, a child was started after
\* the last change.
C2_NoChangeLost ==
    (pc = "Done" /\ hist.inLoop) => hist.served = hist.changes

\* C3 (as claimed): with a long-running child and a modification of the
\* watched file as the only event, there is one restart for the modification:
\* never more restarts than modifications, no notification left pending for a
\* second restart once the modification had its restart, and the restart ends
\* with a successful Start with no shutdown following from it: Run neither
\* shuts down nor returns.
C3_OneRestartNoShutdown ==
    /\ hist.restarts <= hist.changes
    /\ (pc = "Loop" /\ hist.changes = 1 /\ hist.restarts = 1 => changeChan = 0)
    /\ hist.why = "none"
    /\ pc # "Done"

\* C4 (as claimed): the exit information produced for a run that Restart
\* stopped while it was live has reason Restart, and after Restart the current
\* process is another one.
C4_OldRunExitIsRestart ==
    /\ \A r \in Runs :
         (mon[r].st \in {"sending", "done"} /\ mon[r].run \in hist.restarted)
            => mon[r].reason = "Restart"
    /\ (pc = "Loop" => cmd \notin hist.restarted)

C6_CancelReturnsNil ==
    (pc = "Done" /\ hist.extCancel = "loop" /\ ~EnvFailed)
        => (ret = Nil /\ hist.steps = AllSteps)

\* C7 (as claimed): when an Abnormal exit result with an error made Run shut
\* down, Run returns that error.
C7_ChildErrorPropagated ==
    (pc = "Done" /\ hist.why = "exit" /\ hist.exit[1].err # Nil)
        => ret = hist.exit[1].err

\* C7 (amended): when an Abnormal exit result with an error made Run shut
\* down, Run performs shutdown and returns the result of shutdown's Stop; the
\* child's error is not what it returns unless Stop failed with the same.
C7_ChildErrorNotPropagated ==
    (pc = "Done" /\ hist.why = "exit" /\ hist.exit[1].err # Nil)
        => /\ hist.exit[1].reason = "Abnormal"
           /\ hist.steps = AllSteps
           /\ ret = stopRes[1]

\* C7, witness: the child exited with an error, Run shut down and returned nil.
C7_Witness ==
    /\ pc = "Done"
    /\ hist.why = "exit"
    /\ hist.exit[1].err = ErrExit
    /\ ret = Nil

\* C8: when the exit result of a child that exited on its own with a non-zero
\* status made Run shut down and shutdown's Stop succeeded, Run returns nil,
\* as it does for a clean exit.
C8_ErrorExitReturnsNil ==
    (pc = "Done" /\ hist.why = "exit" /\ stopRes = <<Nil>>) => ret = Nil

\* C8, witness: the first child exited on its own with a non-zero status, the
\* loop received that result, Stop returned nil and Run returned.
C8_Witness ==
    /\ pc = "Done"
    /\ hist.why = "exit"
    /\ hist.exit[1].err = ErrExit
    /\ proc[mon[hist.exit[1].mon].run].cause = "self"
    /\ stopRes = <<Nil>>

\* C9: shutdown cancels the context, then closes the watcher, then calls Stop
\* with the 10 second timeout, in this order; Stop is called whatever Close
\* returned; Run returns what that Stop returned.
C9_ShutdownOrder ==
    /\ \E n \in 0..3 : hist.steps = SubSeq(AllSteps, 1, n)
    /\ (hist.steps # <<>> => ctxDone)
    /\ (Len(hist.steps) >= 2 /\ watcherKind = "active" => watcherClosed)
    /\ (stopCaller = "shutdown" =>
          hist.steps = AllSteps /\ stopTimeoutArg = StopTimeout)
    /\ (pc \in {"Stop", "StopSelect"} /\ stopCaller # "Restart" =>
          stopCaller = "shutdown")
    /\ (pc = "Done" /\ hist.why # "none" =>
          hist.steps = AllSteps /\ ret = stopRes[1])

\* C9, witness: Close failed, Stop was called all the same and failed too, and
\* Run returned Stop's error.
C9_Witness ==
    /\ pc = "Done"
    /\ hist.steps = AllSteps
    /\ hist.closeErr = ErrClose
    /\ stopRes # <<Nil>>
    /\ ret = stopRes[1]

\* C10: when Restart fails in the loop, because its Stop or its Start returned
\* an error, Run returns Restart's error at once, without shutdown; having
\* returned, Run starts no process, receives no event and changes no state of
\* the process manager.
C10_RestartFailureIsFatal ==
    [][ /\ (stopCaller = "Restart" /\ stopRes' # stopRes /\ stopRes' # <<Nil>>) =>
             /\ pc' = "Done"
             /\ ret' = Wrap("failed to stop process", stopRes'[1])
             /\ hist'.steps = <<>>
             /\ NextRun' = NextRun
        /\ (pc = "RestartStart" /\ proc'[NextRun].status = "failed") =>
             /\ pc' = "Done"
             /\ ret' # Nil /\ ret'[1] = "failed to start process"
             /\ hist'.steps = <<>>
        /\ (pc = "Done" =>
              /\ pc' = "Done" /\ ret' = ret
              /\ NextRun' = NextRun
              /\ cmd' = cmd /\ restartFlag' = restartFlag
              /\ sigChan' >= sigChan /\ changeChan' >= changeChan
              /\ (runExitChan # <<>> => runExitChan' = runExitChan)
              /\ hist'.steps = hist.steps)
      ]_vars

\* C10, witness: Restart's Stop failed and Run returned its error without
\* shutdown.
C10_Witness ==
    /\ pc = "Done"
    /\ hist.restarts > 0
    /\ ret # Nil /\ ret[1] = "failed to stop process"
    /\ hist.steps = <<>>
    /\ ~ctxDone

\* C11: when the command cannot be launched Start returns an error wrapped as
\* "failed to start process", spawns no monitorProcess for that attempt, then
\* or later, so that no ExitInfo comes from it, and leaves m.cmd.Process nil:
\* a Stop that follows returns nil at once, sending no signal and starting no
\* goroutine.  When the launch succeeds Start returns nil and spawns the
\* monitorProcess of that run and no other.
C11_FailedStart ==
    [][ /\ \A r \in Runs :
             /\ (proc[r].status = "none" /\ proc'[r].status = "failed") =>
                   /\ ret' # Nil /\ ret'[1] = "failed to start process"
                   /\ cmd' = r
                   /\ mon' = mon
             /\ (proc[r].status = "none" /\ proc'[r].status = "live") =>
                   /\ ret' = Nil
                   /\ cmd' = r
                   /\ mon[r].st = "none" /\ mon'[r].st = "spawned"
                   /\ \A q \in Runs \ {r} : mon'[q] = mon[q]
             /\ (proc[r].status = "failed") =>
                   /\ proc'[r] = proc[r]
                   /\ mon'[r].st = "none"
        /\ (pc = "Stop" /\ HandleState = "failed" /\ pc' # "Stop") =>
             /\ stopRes' = <<Nil>>
             /\ stopCaller = "caller" => (pc' = "Done" /\ ret' = Nil)
             /\ proc' = proc
             /\ stopDone' = stopDone
      ]_vars

\* C11, witness: Start failed to launch the command, the caller then called
\* Stop, and Stop has returned.
C11_Witness ==
    /\ hist.calls = <<"Start", "Stop">>
    /\ pc = "Done"
    /\ proc[1].status = "failed"
    /\ hist.stopAt = "failed"
    /\ stopRes = <<Nil>>
    /\ mon[1].st = "none"

\* The last call the caller of the process manager made.
LastCall ==
    IF hist.calls = <<>> THEN "none" ELSE hist.calls[Len(hist.calls)]

\* C12 (as claimed): when Stop was called on a live process and has returned
\* after the timeout path sent the forceful kill, it has returned nil and the
\* process is terminated.
C12_KilledWhenStopReturns ==
    (pc = "Done" /\ LastCall = "Stop" /\ hist.stopAt = "live" /\ proc[cmd].kill)
        => (ret = Nil /\ proc[cmd].status # "live")

\* C13 (as claimed): when Stop was called while no process was live, before
\* any Start or after the process had exited on its own, it has returned nil
\* and has sent no forceful kill (unless kill(2) itself failed).
C13_StopWithoutLiveProcess ==
    (/\ pc = "Done"
     /\ LastCall = "Stop"
     /\ ret # ErrPerm
     /\ \/ hist.stopAt = "nil"
        \/ hist.stopAt \in {"zombie", "reaped"} /\ proc[cmd].cause = "self")
        => (ret = Nil /\ (cmd # 0 => ~proc[cmd].kill))

\* C13, the part that holds: a Stop called before any Start, or after
\* monitorProcess has reaped the process that exited on its own, returns nil
\* at once, with no signal sent and no goroutine started.
C13_StopAfterReap ==
    [][ (/\ pc = "Stop"
         /\ stopCaller = "caller"
         /\ hist.stopAt \in {"nil", "reaped"}
         /\ pc' # "Stop")
        => (pc' = "Done" /\ ret' = Nil /\ proc' = proc /\ stopDone' = stopDone)
      ]_vars

\* The child processes that are running.
Live == {r \in Runs : proc[r].status = "live"}

\* C14 (as claimed): under Run at most one child process is live in every
\* reachable state: no Start is executed while the process of an earlier run
\* is still live.
C14_AtMostOneLive ==
    Cardinality(Live) <= 1

\* The monitorProcess goroutines whose cmd.Wait returned for run r.
WaitersOf(r) ==
    {q \in Runs : mon[q].st \in {"exited", "sending", "done"} /\ mon[q].run = r}

\* C15 (as claimed): under Run, the wait activities produce at most one
\* ExitInfo for each run; and every ExitInfo reaches the loop's exit channel:
\* when Run has returned no goroutine is left holding an ExitInfo it can never
\* send because exitChan is full, and no monitorProcess is left with an
\* ExitInfo for a full m.exitChan that no Wait call will empty.
C15_OneExitInfoDelivered ==
    /\ \A r \in Runs : Cardinality(WaitersOf(r)) <= 1
    /\ ~(pc = "Done" /\ runExitChan # <<>> /\ repHold # {})
    /\ ~(/\ pc = "Done"
         /\ pmExitChan # <<>>
         /\ repWaiting = 0
         /\ \E q \in Runs : mon[q].st = "sending")

\* C16 (as claimed): the wait activity never produces reason Unknown, and for
\* a process that terminated while the restart flag was clear the ExitInfo has
\* reason Abnormal and carries the process's own result: nil for a clean exit,
\* the termination error otherwise.
C16_AbnormalWhenFlagClear ==
    \A q \in Runs :
        mon[q].st \in {"sending", "done"} =>
            /\ mon[q].reason # "Unknown"
            /\ (proc[mon[q].run].status \in {"zombie", "reaped"}
                  /\ ~proc[mon[q].run].flag)
                 => /\ mon[q].reason = "Abnormal"
                    /\ mon[q].err = proc[mon[q].run].err

\* C16, the part that holds: monitorProcess gives Restart when it reads the
\* flag set and Abnormal when it reads it clear, never Unknown, whatever the
\* error of cmd.Wait.
C16_ReasonFromFlagRead ==
    [][ \A q \in Runs :
          (mon[q].st = "exited" /\ mon'[q].st = "sending") =>
             /\ mon'[q].reason = (IF restartFlag THEN "Restart" ELSE "Abnormal")
             /\ mon'[q].err = mon[q].err
      ]_vars

\* Run r is the only one whose ExitInfo is outstanding, and a Wait call is
\* pending.
OnlyOutstanding(r) ==
    /\ mon[r].st = "spawned"
    /\ \A q \in Runs \ {r} : mon[q].st \in {"none", "done"}
    /\ pmExitChan = <<>>
    /\ repWaiting > 0

\* A Wait call has returned the ExitInfo of the monitorProcess of run r.
WaitReturned(r) ==
    \E i \in repHold : i.mon = r

\* C17: when the context given to Start is cancelled while the child of run r
\* is running, the child terminates; and when run r's ExitInfo is the only one
\* outstanding and a Wait call is pending, that Wait call eventually returns
\* it.  The caller never calls Stop.
C17_CancelTerminatesChild ==
    \A r \in Runs :
        /\ (ctxDone /\ proc[r].status = "live") ~> (proc[r].status # "live")
        /\ (ctxDone /\ proc[r].status = "live" /\ OnlyOutstanding(r))
              ~> WaitReturned(r)

\* C17, witness: the context was cancelled while the child was running, Stop
\* was never called, and Wait has returned the ExitInfo of the killed child.
C17_Witness ==
    /\ hist.calls = <<"Start">>
    /\ ctxDone
    /\ proc[1].status = "reaped"
    /\ proc[1].cause = "signal"
    /\ ~proc[1].term /\ ~proc[1].kill
    /\ stopRes = <<>>
    /\ WaitReturned(1)


\* The detector was constructed for an empty path or for a path that named no
\* file: it recorded no baseline.
NoBaseline == last = NoFile

\* C18: a detector constructed for an empty path or a path that does not exist
\* is a noopWatcher.  In every later state, also after the file was created,
\* it runs no watch or poll goroutine and no debounce timer, is delivered no
\* event, holds no notification, causes no restart, and its Close returns nil.
C18_NoopDetector ==
    NoBaseline =>
        /\ watcherKind = "noop"
        /\ watchG.pc = "off"
        /\ pollG.pc = "off"
        /\ debounceTimer = "nil"
        /\ callbacks = {}
        /\ fsEvents = 0
        /\ changeChan = 0
        /\ hist.restarts = 0
        /\ hist.closeErr = Nil
        /\ ~watcherClosed

\* C18, witness: the file was created after a detector without baseline was
\* started, and Run has returned after closing the detector.
C18_Witness ==
    /\ NoBaseline
    /\ file # NoFile
    /\ hist.inLoop
    /\ \E i \in 1..Len(hist.steps) : hist.steps[i] = "close"
    /\ pc = "Done"


\* C19 (as claimed): one change of the file is confirmed by at most one of the
\* two detection sources: the event-driven listener and the poller never both
\* hold a true answer of checkFileChanged for the same state of the file.
C19_ConfirmedByOneSource ==
    ~(/\ watchG.pc = "changed"
      /\ pollG.pc = "changed"
      /\ watchG.snap = pollG.snap)


\* A step in which the debounce callback or the poller pushes on changeChan.
PushStep ==
    \/ callbacks' # callbacks /\ callbacks' \subseteq callbacks
    \/ pollG.pc = "writing" /\ pollG'.pc = "select"

\* C20: changeChan never holds more than one notification; a push made while
\* one is pending leaves exactly that one; and a pusher never blocks: whenever
\* the debounce callback or the poller is at its push, the push can be taken.
C20_OnePendingNotification ==
    /\ [](changeChan \in {0, 1})
    /\ [][PushStep => changeChan' = 1]_vars
    /\ [](\A t \in callbacks : ENABLED DebouncePush(t))
    /\ [](pollG.pc = "writing" => ENABLED PollConfirm)

\* C20, witness: a push was made while a notification was pending, and the
\* channel holds one notification.
C20_Witness ==
    /\ hist.dropped
    /\ changeChan = 1
    /\ debounceTimer = "nil"
    /\ callbacks = {}
    /\ pollG.pc = "select"


\* The notifications the detector has emitted: those the user has read and
\* the one that is pending.
Emitted == hist.received + changeChan

\* The detector is running and has nothing left to do: no event is queued,
\* both goroutines are at their select, no timer is armed, no callback is
\* running, and the baseline is the file as it is.
Quiescent ==
    /\ ~ctxDone /\ ~watcherClosed
    /\ Running(watchG) /\ Running(pollG)
    /\ fsEvents = 0
    /\ debounceTimer = "nil" /\ callbacks = {}
    /\ last = file

\* C21 (as claimed): N >= 1 modifications of the watched file, each less than
\* the debounce period after the one before, give at most 2 notifications to
\* a user that reads them, and at least 1 once the detector has caught up
\* with writes to the file.
C21_RapidModifications ==
    burst # "free" =>
        /\ Emitted <= 2
        /\ (burst = "over" /\ Quiescent /\ file.mt > File0.mt) => Emitted >= 1


\* C22 (as claimed): when the identity of the watched file has changed while
\* the detector was running, by swaps of the symbolic link or by removing and
\* creating the file, with a modification time that never advanced, the
\* detector emits a notification: it never comes to rest, with nothing left
\* to do, having emitted none.
C22_IdentityChangeNotified ==
    (Quiescent /\ hist.changes > 0 /\ file.mt = File0.mt) => Emitted >= 1


C24_StatErrorIsNoChange ==
    [][(WatchEventWith(FALSE) \/ PollTickWith(FALSE))
         => /\ last' = last
            /\ changeChan' = changeChan
            /\ debounceTimer' = debounceTimer
            /\ callbacks' = callbacks
            /\ hist'.timers = hist.timers
            /\ watchG' = watchG /\ pollG' = pollG
            /\ Running(watchG') \/ Running(pollG')
            /\ UNCHANGED <<runVars, procVars>>]_vars

\* C24, witness: the file was modified, a stat has failed, both goroutines are
\* at their select, and the modification is still there to be found: the
\* baseline is the old one and nothing was emitted.
C24_Witness ==
    /\ hist.statFailed
    /\ hist.changes > 0
    /\ Running(watchG) /\ Running(pollG)
    /\ last = File0 /\ file # File0
    /\ debounceTimer = "nil" /\ callbacks = {} /\ hist.timers = 0
    /\ Emitted = 0


\* C25: once the context is cancelled and watch and poll have returned, they
\* stay so; the baseline is never written again, no debounce timer is armed,
\* and a notification is emitted only by a timer that was armed before: with
\* no timer armed and no callback running, none is emitted, whatever is done
\* to the file.
C25_NothingAfterStop ==
    [][Stopped
         => /\ Stopped'
            /\ last' = last
            /\ hist'.timers = hist.timers
            /\ (debounceTimer' = "armed" => debounceTimer = "armed")
            /\ callbacks' \subseteq callbacks \cup {hist.timers}
            /\ (debounceTimer = "nil" /\ callbacks = {}) => Emitted' = Emitted]_vars

\* C25, witness: the file was modified after the context was cancelled and
\* both goroutines had returned; the baseline is still the old one and no
\* notification was emitted.
C25_Witness ==
    /\ Stopped
    /\ hist.afterStop
    /\ file # last
    /\ debounceTimer = "nil" /\ callbacks = {}
    /\ Emitted = 0


\* The variables that a cancellation of an already cancelled context could
\* touch: all but Run's position and the history.
CancelLeaves ==
    <<stopCaller, stopTimeoutArg, stopRes, ret, sigChan, ctxDone, runExitChan,
      repWaiting, repHold, procVars, watchVars, envVars>>

WatchReturnsChanged == watchG.pc = "writing" /\ watchG'.pc = "select"
PollReturnsChanged == pollG.pc = "writing" /\ pollG'.pc = "select"

\* C27 (as claimed): the comparison answers changed exactly when the observed
\* modification time is later than the recorded one or the observed inode is
\* nonzero and differs from the recorded one; a call that answers changed
\* leaves the baseline equal to the pair it observed; a call that answers
\* unchanged leaves the baseline as it was; and an event whose comparison
\* answered unchanged arms no timer and pushes nothing.
C27_ComparisonAndBaseline ==
    /\ [][WatchEventWith(TRUE)
            => (watchG'.pc = "changed" <=> Changed(file, last))]_vars
    /\ [][PollTickWith(TRUE)
            => (pollG'.pc = "changed" <=> Changed(file, last))]_vars
    /\ [][WatchReturnsChanged => last' = watchG.snap]_vars
    /\ [][PollReturnsChanged => last' = pollG.snap]_vars
    /\ [][((WatchEvent /\ watchG'.pc # "changed")
             \/ (PollTick /\ pollG'.pc # "changed")) => last' = last]_vars
    /\ [][(WatchEvent /\ watchG'.pc # "changed")
            => /\ UNCHANGED <<changeChan, debounceTimer, callbacks>>
               /\ hist'.timers = hist.timers
               /\ Running(watchG')]_vars


\* C28 (as claimed): on the event path every confirmed change arms the
\* debounce timer anew, and only a timer that ran its whole period without
\* being reset pushes: the function that pushes is that of the timer armed at
\* the most recent confirmed change, so no push comes less than a debounce
\* period after that change, and a timer that was reset never pushes.
C28_PushOnlyByUninterruptedTimer ==
    /\ [][WatchReturnsChanged
            => debounceTimer' = "armed" /\ hist'.timers = hist.timers + 1]_vars
    /\ [][\A t \in callbacks : DebouncePush(t) => t = hist.timers]_vars


\* The processes that were ever started or tried to start.
Launched == {r \in Runs : proc[r].status # "none"}

\* The step in which the Stop called by Restart returns.
RestartStopReturns == stopCaller = "Restart" /\ stopCaller' = "none"

\* C29: Restart sets the restart flag and calls Stop with the 10 second
\* timeout; the flag stays set and nothing is launched while Stop runs; when
\* Stop fails with e, Restart returns e wrapped as "failed to stop process"
\* and launches nothing; when Stop succeeds Restart pauses, clears the flag
\* and only then calls Start, whose result, error or nil, it returns.
C29_RestartOrder ==
    /\ [][(Len(hist'.calls) > Len(hist.calls) /\ LastCall' = "Restart")
            => /\ restartFlag' /\ pc' = "Stop"
               /\ stopCaller' = "Restart" /\ stopTimeoutArg' = StopTimeout
               /\ Launched' = Launched]_vars
    /\ [](stopCaller = "Restart"
            => restartFlag /\ pc \in {"Stop", "StopSelect"})
    /\ [][stopCaller = "Restart" => Launched' = Launched]_vars
    /\ [][RestartStopReturns
            => /\ Launched' = Launched /\ cmd' = cmd /\ restartFlag'
               /\ \E e \in {Nil, ErrDone, ErrPerm} :
                    /\ stopRes' = <<e>>
                    /\ IF e # Nil
                         THEN /\ pc' = "Done"
                              /\ ret' = <<"failed to stop process">> \o e
                         ELSE pc' = "RestartSleep"]_vars
    /\ [][pc = "RestartSleep"
            => (pc' = "RestartStart" /\ ~restartFlag' /\ Launched' = Launched)
               \/ (pc' = pc /\ restartFlag' /\ Launched' = Launched)]_vars
    /\ [][(pc = "RestartStart" /\ pc' # pc)
            => /\ stopRes = <<Nil>> /\ ~restartFlag /\ ~restartFlag'
               /\ pc' = "Done"
               /\ Launched' = Launched \cup {cmd'} /\ cmd' \notin Launched
               /\ IF proc'[cmd'].status = "live" THEN ret' = Nil
                  ELSE ret' \in {<<"failed to start process">> \o ErrExec,
                                 <<"failed to start process">> \o ErrCtx}]_vars
    /\ [][(LastCall = "Restart" /\ hist'.calls = hist.calls
              /\ Launched' # Launched)
            => pc = "RestartStart"]_vars

\* C29, witness: a Restart of a live process has returned the error of its
\* Stop, wrapped, with the process that was to be stopped still the current one
\* and the restart flag still set.
C29_Witness ==
    /\ pc = "Done"
    /\ LastCall = "Restart"
    /\ hist.restarted # {}
    /\ stopRes # <<>> /\ stopRes[1] # Nil
    /\ ret = <<"failed to stop process">> \o stopRes[1]
    /\ cmd \in hist.restarted
    /\ restartFlag


\* C30 (as claimed): SIGKILL reaches a live child only from Stop's timeout
\* path: SIGTERM was sent to that child before, and Stop's timeout ran out
\* with the child not yet reaped.  This is to hold in every run, shutdown
\* included, which cancels the context before it calls Stop.
C30_KillOnlyAfterGrace ==
    [][\A r \in Runs : KillDelivered(r) => proc[r].term /\ proc[r].kill]_vars


\* C31 (as claimed): when the loop starts shutdown because of an exit result,
\* the process that is current at that moment has terminated: the result of
\* an earlier run never brings down the run started after it.
C31_ShutdownOnlyForCurrentRun ==
    [][(pc = "Loop" /\ pc' = "shutdown" /\ hist'.why = "exit")
         => /\ proc[cmd].status # "live"
            /\ mon[Head(runExitChan).mon].run = cmd]_vars


\* C32 (as claimed): when Run has returned after its first Start succeeded,
\* whatever made it return, the context is cancelled, the watcher is closed
\* and shutdown's Stop was called: the three steps of shutdown were done.
C32_ReturnOnlyAfterShutdown ==
    (pc = "Done" /\ proc[1].status \notin {"none", "failed"})
        => /\ ctxDone
           /\ (watcherKind = "active" => watcherClosed)
           /\ hist.steps = AllSteps


\* Every background goroutine has returned: watch, poll and the debounce
\* functions, each monitorProcess, and each goroutine of Run that calls Wait
\* and sends the result on exitChan.
AllTerminated ==
    /\ watchG.pc \in {"off", "stopped"}
    /\ pollG.pc \in {"off", "stopped"}
    /\ callbacks = {}
    /\ \A q \in Runs : mon[q].st \in {"none", "done"}
    /\ repWaiting = 0
    /\ repHold = {}

\* C33 (as claimed): after the context is cancelled every background
\* goroutine terminates.  In the form a finite run refutes: once the context
\* is cancelled and Run has returned, a state in which no step is possible
\* any more is one in which every goroutine has returned; none is left
\* blocked on a channel.
C33_AllTerminateAfterCancel ==
    (ctxDone /\ pc = "Done" /\ ~ENABLED NextDet) => AllTerminated


\* The step in which Stop returns to its caller.
StopReturns == stopCaller # "none" /\ stopCaller' = "none"

\* C34 (as claimed): a Stop that returns when the process has terminated
\* returns nil, also when the process terminated just as the timeout fired
\* and Kill was tried on it; Restart then goes on and shutdown returns nil.
\* (A kill(2) refused by the system is the one error left out.)
C34_StopOfExitedProcessSucceeds ==
    [][(/\ StopReturns
        /\ cmd # 0
        /\ proc[cmd].status \in {"zombie", "reaped"}
        /\ stopRes' # <<ErrPerm>>)
         => /\ stopRes' = <<Nil>>
            /\ stopCaller = "Restart" => pc' = "RestartSleep"
            /\ stopCaller = "shutdown" => ret' = Nil]_vars


\* C35: when Signal(SIGTERM) fails in Stop with "os: process already
\* finished", Stop returns nil; when it fails with any other error, Stop
\* returns that error; in both cases at once: it starts no goroutine to wait
\* and sends no kill.  When Signal succeeds Stop goes on to wait.
C35_SigtermFailure ==
    [][(pc = "Stop" /\ pc' # "Stop" /\ cmd # 0 /\ proc[cmd].status # "failed")
         => \/ /\ pc' = "StopSelect"
               /\ proc'[cmd].term /\ stopDone' = "waiting" /\ stopRes' = stopRes
            \/ /\ proc[cmd].status = "reaped"
               /\ stopRes' = <<Nil>>
               /\ proc' = proc /\ stopDone' = stopDone
               /\ stopCaller' = "none"
            \/ /\ proc[cmd].status # "reaped"
               /\ stopRes' = <<ErrPerm>>
               /\ proc' = proc /\ stopDone' = stopDone
               /\ stopCaller' = "none"
               /\ pc' = "Done" /\ ret' # Nil /\ ret'[Len(ret')] = ErrPerm[1]]_vars

\* C35, witness: Stop, called by the caller on a live process, has returned
\* the error of a refused SIGTERM: the process is still live, no SIGTERM and
\* no kill was sent to it, and no goroutine waits for it.
C35_Witness ==
    /\ pc = "Done"
    /\ LastCall = "Stop"
    /\ hist.stopAt = "live"
    /\ ret = ErrPerm
    /\ proc[cmd].status = "live"
    /\ ~proc[cmd].term /\ ~proc[cmd].kill
    /\ stopDone = "none"


\* C36 (as claimed): an ExitInfo with reason Restart is that of a process
\* that a signal sent by the manager terminated; a process that terminated on
\* its own is never given reason Restart, also when it terminated while a
\* Restart was in progress.
C36_RestartOnlyIfSelfInflicted ==
    \A q \in Runs :
        (mon[q].st \in {"sending", "done"} /\ mon[q].reason = "Restart"
           /\ proc[mon[q].run].status \in {"zombie", "reaped"})
            => proc[mon[q].run].cause = "signal"


\* C37: under Run, Start, Stop and Restart are called by the goroutine of the
\* loop only: a Stop in progress belongs to the Restart or to the shutdown the
\* loop is in, never to both; shutdown begins only from the loop, when no
\* Restart is in progress; and m.restartFlag and m.cmd change only in a step
\* of that goroutine inside Restart or Start.
C37_OperationsSerialised ==
    /\ [][stopCaller # "none" /\ stopCaller' # "none"
            => stopCaller' = stopCaller]_vars
    /\ [][cmd' # cmd => stopCaller = "none" /\ stopCaller' = "none"]_vars
    /\ [](stopCaller # "none" <=> pc \in {"Stop", "StopSelect"})
    /\ [](stopCaller \in {"none", "Restart", "shutdown"})
    /\ [](pc \in {"shutdown", "cancel", "close"} \/ stopCaller = "shutdown"
            => hist.why # "none")
    /\ [][(hist.why = "none" /\ hist'.why # "none")
            => pc = "Loop" /\ pc' = "shutdown"]_vars
    /\ [][hist.why # "none" => pc' \notin RestartPcs \ {"Stop", "StopSelect"}
                                /\ stopCaller' # "Restart"]_vars
    /\ [][restartFlag' # restartFlag
            => \/ pc = "Loop" /\ pc' = "Stop" /\ stopCaller' = "Restart"
               \/ pc = "RestartSleep" /\ pc' = "RestartStart"]_vars
    /\ [][cmd' # cmd => pc \in {"Start", "RestartStart"} /\ pc' # pc]_vars

\* C37, witness: a signal and an exit result are both pending while the loop
\* is inside Restart's Stop: shutdown has not begun.
C37_Witness ==
    /\ sigChan > 0
    /\ runExitChan # <<>>
    /\ pc = "StopSelect"
    /\ stopCaller = "Restart"
    /\ hist.why = "none"
    /\ restartFlag


\* C38 (as claimed): once the context is cancelled nothing is pushed on
\* changeChan any more; in particular the function of a debounce timer that
\* was armed before the cancellation and was pending at it pushes nothing
\* afterwards.
C38_NoPushAfterCancel ==
    [][\A t \in callbacks :
          (ctxDone /\ t = hist.pendingAtCancel /\ DebouncePush(t))
             => changeChan' = changeChan]_vars


\* A Restart is executing: from the step that sets the flag to the return of
\* its Start, or to its return with the error of its Stop.
RestartInProgress ==
    \/ pc \in {"Stop", "StopSelect"} /\ stopCaller = "Restart"
    \/ pc \in {"RestartSleep", "RestartStart"}

\* C39 (as claimed): the restart flag is set in the step that begins
\* Restart, right before its Stop; it is false whenever no Restart is in
\* progress, also after a Restart that returned an error; and it is set when
\* the termination of the process that Restart stopped is observed: when
\* monitorProcess reads it for that process.
C39_FlagOnlyDuringRestart ==
    /\ [](restartFlag => RestartInProgress)
    /\ [][(~RestartInProgress /\ RestartInProgress')
            => restartFlag' /\ pc' = "Stop"]_vars
    /\ [][\A q \in Runs :
            (mon[q].st = "exited" /\ mon'[q].st = "sending"
               /\ mon[q].run \in hist.restarted)
              => restartFlag]_vars

====
